---- MODULE Spec2Model ----
(***************************************************************************)
(* Model of multi_cloud_object_transfer:                                   *)
(*   - cloud_transfer.py: the chunked download script (requests.get,       *)
(*     raise_for_status, open, iter_content / write loop);                 *)
(*   - cloud_transfer_s3_azure.py: s3_to_azure and azure_to_s3, each run   *)
(*     by the transfers of Procs against one destination namespace;        *)
(*   - utils.py: id_generator; storage_connections.py: the client and URL  *)
(*     factories.                                                          *)
(* Calls into boto3, azure.storage.blob and requests are the environment:  *)
(* each returns or raises, and the model draws the outcome.                *)
(***************************************************************************)
EXTENDS Integers, Sequences, FiniteSets, TLC

\* ------------------------------------------------------------------ bounds
\* longest source stream of the chunked script
MaxLen == 3
\* largest chunk_size of the chunked script
MaxChunk == 2
\* size of a generated id (utils.id_generator's size parameter)
IdSize == 1

\* byte values of a source stream
Bytes == {0, 1}
\* alphabet of id_generator (stands for ascii letters and digits)
Chars == {"x", "y"}
\* the concurrent transfers
Procs == {"t1", "t2"}

VARIABLES
  \* ---- cloud_transfer.py (the chunked script)
  source,      \* the bytes the URL serves
  chunk_size,  \* iter_content's chunk_size
  status,      \* HTTP status class of the response: "ok" | "bad" | "none"
  cpc,         \* position of the script
  pos,         \* bytes of the source consumed by iter_content
  chunk,       \* the chunk in hand (<<>> when none)
  file,        \* bytes of hola.pdf
  fileOpen,    \* whether open("hola.pdf", "wb") has run
  reads,       \* number of chunks iter_content has yielded
  writes,      \* the chunks handed to f.write, in order
  io,          \* the calls the script has made, in order, each with how it ended
  \* ---- cloud_transfer_s3_azure.py (the transfers)
  direction,   \* which function the transfers run
  dest,        \* destination namespace: name -> "none" | "old" | writer
  pc,          \* position of each transfer
  arg,         \* arguments of each transfer: key, name, overwrite
  loc,         \* locals of each transfer, and the delete flag once it is read
  srcObj,      \* whether the source object (the key the transfers read) exists
  log,         \* calls each transfer has made to the outside, in order
  result       \* what each transfer returned

copyVars == <<source, chunk_size, status, cpc, pos, chunk, file, fileOpen, reads, writes, io>>
xferVars == <<direction, dest, pc, arg, loc, srcObj, log, result>>
vars == <<source, chunk_size, status, cpc, pos, chunk, file, fileOpen, reads, writes, io,
          direction, dest, pc, arg, loc, srcObj, log, result>>

\* ------------------------------------------------------------ pure helpers
Min(a, b) == IF a < b THEN a ELSE b

\* all sequences over S of length 0..n
RECURSIVE SeqsUpTo(_, _)
SeqsUpTo(S, n) ==
  IF n = 0 THEN {<<>>}
  ELSE LET shorter == SeqsUpTo(S, n - 1)
       IN  shorter \cup {Append(s, x) : s \in {t \in shorter : Len(t) = n - 1}, x \in S}

\* all sequences over S of length exactly n
SeqsOfLen(S, n) == {s \in SeqsUpTo(S, n) : Len(s) = n}

\* concatenation of a sequence of sequences
RECURSIVE Concat(_)
Concat(ss) == IF ss = <<>> THEN <<>> ELSE Head(ss) \o Concat(Tail(ss))

\* ceil(a / b) for b >= 1
CeilDiv(a, b) == (a + b - 1) \div b

\* ------------------------------------------------- cloud_transfer.py: script
\* the chunk iter_content(chunk_size) yields at offset p of stream src: the next
\* c bytes, fewer only at the end of the stream
NextChunkTooLong(src, p, c) == SubSeq(src, p + 1, Min(p + c + 1, Len(src)))
NextChunk(src, p, c) == SubSeq(src, p + 1, Min(p + c, Len(src)))

\* state of the script before it runs, for each source stream and chunk size
CopyInit ==
  /\ source \in SeqsUpTo(Bytes, MaxLen)
  /\ chunk_size \in 1..MaxChunk
  /\ status = "none"
  /\ cpc = "NotStarted"
  /\ pos = 0
  /\ chunk = <<>>
  /\ file = <<>>
  /\ fileOpen = FALSE
  /\ reads = 0
  /\ writes = <<>>
  /\ io = <<>>

\* the script is not part of the run
CopyIdle ==
  /\ source = <<>>
  /\ chunk_size = 1
  /\ status = "none"
  /\ cpc = "NotStarted"
  /\ pos = 0
  /\ chunk = <<>>
  /\ file = <<>>
  /\ fileOpen = FALSE
  /\ reads = 0
  /\ writes = <<>>
  /\ io = <<>>

\* one call of the script: what was called and whether it returned
Did(op, ok) == [op |-> op, ok |-> ok]
Noted(e) == io' = Append(io, e)

\* where the script is after a call raised: nothing catches the exception, so
\* it leaves both with-blocks and ends the script
AfterErrorRetries == "Streaming"
AfterError == "Failed"

\* where the script is after f.write(chunk) returned: back at the iterator
AfterWriteWritesAgain == "Writing"
AfterWrite == "Streaming"

\* response = requests.get(url, stream=True)
requests_get ==
  /\ cpc = "NotStarted"
  /\ \/ \E st \in {"ok", "bad"} :
          status' = st /\ cpc' = "SourceOpened" /\ Noted(Did("get", TRUE))
     \/ status' = status /\ cpc' = "Failed" /\ Noted(Did("get", FALSE))
  /\ UNCHANGED <<source, chunk_size, pos, chunk, file, fileOpen, reads, writes>>
  /\ UNCHANGED xferVars

\* part.raise_for_status()
raise_for_status ==
  /\ cpc = "SourceOpened"
  /\ cpc' = IF status = "ok" THEN "StatusChecked" ELSE "Failed"
  /\ Noted(Did("raise_for_status", status = "ok"))
  /\ UNCHANGED <<source, chunk_size, status, pos, chunk, file, fileOpen, reads, writes>>
  /\ UNCHANGED xferVars

\* with open("hola.pdf", "wb") as f
open_file ==
  /\ cpc = "StatusChecked"
  /\ \/ fileOpen' = TRUE /\ file' = <<>> /\ cpc' = "Streaming" /\ Noted(Did("open", TRUE))
     \/ UNCHANGED <<fileOpen, file>> /\ cpc' = "Failed" /\ Noted(Did("open", FALSE))
  /\ UNCHANGED <<source, chunk_size, status, pos, chunk, reads, writes>>
  /\ UNCHANGED xferVars

\* for chunk in part.iter_content(chunk_size=1024): one step of the iterator
iter_content ==
  /\ cpc = "Streaming"
  /\ \/ /\ pos < Len(source)
        /\ chunk' = NextChunk(source, pos, chunk_size)
        /\ pos' = pos + Len(chunk')
        /\ reads' = reads + 1
        /\ cpc' = "Writing"
        /\ Noted(Did("read", TRUE))
     \/ /\ cpc' = AfterError
        /\ Noted(Did("read", FALSE))
        /\ UNCHANGED <<chunk, pos, reads>>
     \/ /\ pos >= Len(source)
        /\ cpc' = "Completed"
        /\ Noted(Did("end", TRUE))
        /\ UNCHANGED <<chunk, pos, reads>>
  /\ UNCHANGED <<source, chunk_size, status, file, fileOpen, writes>>
  /\ UNCHANGED xferVars

\* f.write(chunk)
write_chunk ==
  /\ cpc = "Writing"
  /\ \/ /\ file' = file \o chunk
        /\ writes' = Append(writes, chunk)
        /\ chunk' = <<>>
        /\ cpc' = AfterWrite
        /\ Noted(Did("write", TRUE))
     \/ /\ cpc' = AfterError
        /\ Noted(Did("write", FALSE))
        /\ UNCHANGED <<file, writes, chunk>>
  /\ UNCHANGED <<source, chunk_size, status, pos, fileOpen, reads>>
  /\ UNCHANGED xferVars

CopyNext ==
  \/ requests_get
  \/ raise_for_status
  \/ open_file
  \/ iter_content
  \/ write_chunk

\* ------------------------------------------------------------------ names
\* an object name is a sequence of one-character strings
\* the key of the source object, and a destination name given explicitly
SourceKey == <<"a", ".", "p">>
OtherName == <<"a">>
\* Python's None, for a destination name that was not given
None == <<>>
\* the function has not returned
NoResult == <<"unset">>
\* the destination names a transfer can start from
CandidateNames == {SourceKey, OtherName}

\* greatest index of character c in p, 0 when absent (str.rfind, 1-based)
RFind(p, c) ==
  LET at == {i \in 1..Len(p) : p[i] = c}
  IN  IF at = {} THEN 0 ELSE CHOOSE i \in at : \A j \in at : j <= i

\* os.path.splitext: <<root, ext>>; the extension starts at the last dot of the
\* last path component, leading dots of the component are not an extension
splitext(p) ==
  LET sepIndex == RFind(p, "/")
      dotIndex == RFind(p, ".")
  IN  IF dotIndex > sepIndex /\ \E i \in (sepIndex + 1)..(dotIndex - 1) : p[i] # "."
      THEN <<SubSeq(p, 1, dotIndex - 1), SubSeq(p, dotIndex, Len(p))>>
      ELSE <<p, <<>>>>

\* the ids id_generator(size, chars) can return
id_generator(size, chars) == SeqsOfLen(chars, size)

\* f"{file_name}_{random_id}{file_extension}" with the parts of original_name
Renamed(original_name, random_id) ==
  LET parts == splitext(original_name)
  IN  parts[1] \o <<"_">> \o random_id \o parts[2]

\* every name a transfer can come to use
AllNames ==
  CandidateNames \cup
  {Renamed(c, i) : c \in CandidateNames, i \in id_generator(IdSize, Chars)}

\* names present in a namespace
Present(d) == {n \in DOMAIN d : d[n] # "none"}

\* one call made to the outside: op, the name it is about, how it ended, and
\* whether the object of that name was there when the call was made
Call(op, name, out, present) ==
  [op |-> op, name |-> name, out |-> out, present |-> present]

\* what an existence check that answered reports
Answer(e) == IF e THEN "exists" ELSE "absent"

\* ----------------------------------------------- transfers: initial state
InitLocals ==
  [ name          |-> None,  \* azure_storage_blob_name / aws_object_key
    original_name |-> None,
    began         |-> {},    \* names present when the transfer began
    delete_after_transfer |-> FALSE ]  \* the flag, once the function has read it

\* the destination name a call starts from: the key when no name is given
DefaultName(a) == IF a.name = None THEN a.key ELSE a.name

\* the candidate and the names the rename loop can derive from it
Family(c) == {c} \cup {Renamed(c, i) : i \in id_generator(IdSize, Chars)}

\* The transfers of a run are given the same destination name (the case in
\* which they meet); the namespace holds any of the names they can come to use.
XferInit ==
  /\ direction \in {"s3_to_azure", "azure_to_s3"}
  /\ pc = [p \in Procs |-> "start"]
  /\ \E n \in {None, OtherName} :
       /\ arg \in [Procs -> [key : {SourceKey}, name : {n}, overwrite : BOOLEAN]]
       /\ dest \in {d \in [AllNames -> {"none", "old"}] :
                      Present(d) \subseteq Family(IF n = None THEN SourceKey ELSE n)}
  /\ loc = [p \in Procs |-> InitLocals]
  /\ srcObj = TRUE
  /\ log = [p \in Procs |-> <<>>]
  /\ result = [p \in Procs |-> NoResult]

\* no transfer is part of the run
XferIdle ==
  /\ direction = "s3_to_azure"
  /\ dest = [n \in AllNames |-> "none"]
  /\ pc = [p \in Procs |-> "start"]
  /\ arg = [p \in Procs |-> [key |-> SourceKey, name |-> None, overwrite |-> FALSE]]
  /\ loc = [p \in Procs |-> InitLocals]
  /\ srcObj = TRUE
  /\ log = [p \in Procs |-> <<>>]
  /\ result = [p \in Procs |-> NoResult]

\* ------------------------------------------------- transfers: shared steps
Goto(p, l) == pc' = [pc EXCEPT ![p] = l]
Logged(p, c) == log' = [log EXCEPT ![p] = Append(@, c)]

\* Of the re-checks of the rename loop the log keeps the one that ended the
\* loop: a re-check that found the name taken only leads to the next pass (the
\* loop has no bound, the log has).
IsRecheck(p, c) == c.op \in {"exists", "head"} /\ c.name # loc[p].original_name
LoggedCheck(p, c) ==
  log' = [log EXCEPT ![p] =
            IF IsRecheck(p, c) /\ c.out = Answer(TRUE) THEN @ ELSE Append(@, c)]

\* whether the name the transfer holds is in the destination namespace now
There(p) == loc[p].name \in Present(dest)

\* an exception leaves the function: nothing after the raising call runs
Raise(p, c) ==
  /\ Goto(p, "raised")
  /\ Logged(p, c)

\* the function returns its information dict, which carries the final name
ReturnName(p, n) ==
  /\ Goto(p, "returned")
  /\ result' = [result EXCEPT ![p] = n]
Return(p) == ReturnName(p, loc[p].name)

\* the status classes a GET of the source URL can answer with: success only
\* while the object is there
SourceStatus == IF srcObj THEN {"ok", "bad"} ELSE {"bad"}

\* ------------------------------------------------------------ s3_to_azure
\* where s3_to_azure goes when generate_presigned_url raises ClientError:
\* print(e); return
AfterClientErrorGoesOn == "check"
AfterClientError == "returned"

\* Lines 119-150: s3_client = get_s3_client(...), the destination name defaults
\* to the key, then object_url: the plain URL of a public object, or
\* generate_presigned_url. get_s3_client returns None when the session cannot
\* be made, and a call on None raises as any failing call does.
s3a_object_url(p) ==
  /\ direction = "s3_to_azure"
  /\ pc[p] = "start"
  /\ loc' = [loc EXCEPT ![p].name = DefaultName(arg[p]),
                        ![p].began = Present(dest)]
  /\ \/ \* aws_public_object is True, or the presigned URL is generated
        /\ Goto(p, "check")
        /\ UNCHANGED <<log, result>>
     \/ \* except ClientError: print(e); return
        /\ Goto(p, AfterClientError)
        /\ Logged(p, Call("presign", arg[p].key, "ClientError", srcObj))
        /\ result' = [result EXCEPT ![p] = None]
     \/ \* any other exception propagates
        /\ Raise(p, Call("presign", arg[p].key, "raised", srcObj))
        /\ UNCHANGED result
  /\ UNCHANGED <<direction, dest, arg, srcObj>>
  /\ UNCHANGED copyVars

\* where s3_to_azure goes after an existence check that answered e
S3aAfterCheckIgnoresAnswer(overwrite, e) == "open"
S3aAfterCheck(overwrite, e) ==
  IF overwrite THEN (IF e THEN "delete" ELSE "open")
               ELSE (IF e THEN "rename" ELSE "open")

\* Lines 152-169: blob_client = get_azure_blob_client(...) (None when the client
\* cannot be made, and then .exists() raises), and the first blob_client.exists()
s3a_exists(p) ==
  /\ direction = "s3_to_azure"
  /\ pc[p] = "check"
  /\ \/ LET e == loc[p].name \in Present(dest)
        IN  /\ loc' = [loc EXCEPT ![p].original_name = loc[p].name]
            /\ Logged(p, Call("exists", loc[p].name, Answer(e), There(p)))
            /\ Goto(p, S3aAfterCheck(arg[p].overwrite, e))
     \/ /\ Raise(p, Call("exists", loc[p].name, "raised", There(p)))
        /\ UNCHANGED loc
  /\ UNCHANGED <<direction, dest, arg, srcObj, result>>
  /\ UNCHANGED copyVars

\* Line 164: blob_client.delete_blob(); a blob that is gone raises
s3a_delete_blob(p) ==
  /\ direction = "s3_to_azure"
  /\ pc[p] = "delete"
  /\ \/ /\ loc[p].name \in Present(dest)
        /\ dest' = [dest EXCEPT ![loc[p].name] = "none"]
        /\ Logged(p, Call("delete", loc[p].name, "ok", There(p)))
        /\ Goto(p, "open")
     \/ /\ Raise(p, Call("delete", loc[p].name, "raised", There(p)))
        /\ UNCHANGED dest
  /\ UNCHANGED <<direction, arg, loc, srcObj, result>>
  /\ UNCHANGED copyVars

\* Lines 170-186, one pass of `while exists is True`: the name is rebuilt from
\* original_name with a fresh id, a client is made for it, and it is checked
s3a_rename(p) ==
  /\ direction = "s3_to_azure"
  /\ pc[p] = "rename"
  /\ \E random_id \in id_generator(IdSize, Chars) :
       LET n == Renamed(loc[p].original_name, random_id)
       IN  /\ loc' = [loc EXCEPT ![p].name = n]
           /\ \/ LET e == n \in Present(dest)
                 IN  /\ LoggedCheck(p, Call("exists", n, Answer(e), n \in Present(dest)))
                     /\ Goto(p, S3aAfterCheck(FALSE, e))
              \/ /\ Goto(p, "raised")
                 /\ LoggedCheck(p, Call("exists", n, "raised", n \in Present(dest)))
  /\ UNCHANGED <<direction, dest, arg, srcObj, result>>
  /\ UNCHANGED copyVars

\* Line 189: object_stream = requests.get(object_url, stream=True); the status
\* of the response is not looked at
s3a_requests_get(p) ==
  /\ direction = "s3_to_azure"
  /\ pc[p] = "open"
  /\ \/ \E st \in SourceStatus :
          /\ Logged(p, Call("open", arg[p].key, st, srcObj))
          /\ Goto(p, "upload")
     \/ Raise(p, Call("open", arg[p].key, "raised", srcObj))
  /\ UNCHANGED <<direction, dest, arg, loc, srcObj, result>>
  /\ UNCHANGED copyVars

\* whether the source object is deleted after the upload. The flag is an
\* argument that nothing reads before this test, so its value is drawn here.
DeleteSourceAlways(flag) == TRUE
DeleteSource(flag) == flag = TRUE

\* Line 190: blob_client.upload_blob(object_stream): overwrite defaults to False,
\* so a blob that exists raises ResourceExistsError. Without the delete flag the
\* function then returns (lines 207-213).
s3a_upload_blob(p) ==
  /\ direction = "s3_to_azure"
  /\ pc[p] = "upload"
  /\ \/ /\ loc[p].name \notin Present(dest)
        /\ dest' = [dest EXCEPT ![loc[p].name] = p]
        /\ Logged(p, Call("upload", loc[p].name, "ok", There(p)))
        /\ \E flag \in BOOLEAN :
             /\ loc' = [loc EXCEPT ![p].delete_after_transfer = flag]
             /\ IF DeleteSource(flag)
                THEN Goto(p, "delete_source") /\ UNCHANGED result
                ELSE ReturnName(p, loc[p].name)
     \/ /\ Raise(p, Call("upload", loc[p].name, "raised", There(p)))
        /\ UNCHANGED <<dest, loc, result>>
  /\ UNCHANGED <<direction, arg, srcObj>>
  /\ UNCHANGED copyVars

\* Lines 197-213: s3_client.delete_object(...), which S3 answers alike for a key
\* that is there and one that is gone; then return
s3a_delete_object(p) ==
  /\ direction = "s3_to_azure"
  /\ pc[p] = "delete_source"
  /\ \/ /\ srcObj' = FALSE
        /\ Logged(p, Call("delete_source", arg[p].key, "ok", srcObj))
        /\ Return(p)
     \/ /\ Raise(p, Call("delete_source", arg[p].key, "raised", srcObj))
        /\ UNCHANGED <<srcObj, result>>
  /\ UNCHANGED <<direction, dest, arg, loc>>
  /\ UNCHANGED copyVars

s3_to_azure(p) ==
  \/ s3a_object_url(p)
  \/ s3a_exists(p)
  \/ s3a_delete_blob(p)
  \/ s3a_rename(p)
  \/ s3a_requests_get(p)
  \/ s3a_upload_blob(p)
  \/ s3a_delete_object(p)

\* ------------------------------------------------------------ azure_to_s3
\* Lines 311-317: object_url = azure_url_generator(...)
a2s_object_url(p) ==
  /\ direction = "azure_to_s3"
  /\ pc[p] = "start"
  /\ loc' = [loc EXCEPT ![p].began = Present(dest)]
  /\ \/ /\ Goto(p, "open")
        /\ UNCHANGED log
     \/ Raise(p, Call("presign", arg[p].key, "raised", srcObj))
  /\ UNCHANGED <<direction, dest, arg, srcObj, result>>
  /\ UNCHANGED copyVars

\* where azure_to_s3 goes once the stream is open: the rename loop runs only
\* when aws_storage_key_overwrite is False
A2sAfterOpen(overwrite) == IF overwrite = FALSE THEN "head" ELSE "upload"

\* Lines 320-341: object_stream = requests.get(object_url, stream=True) (the
\* status is not looked at), the key defaults to the blob name, s3_client and
\* ACL are set, original_name = aws_object_key
a2s_requests_get(p) ==
  /\ direction = "azure_to_s3"
  /\ pc[p] = "open"
  /\ \/ \E st \in SourceStatus :
          /\ loc' = [loc EXCEPT ![p].name = DefaultName(arg[p]),
                                ![p].original_name = DefaultName(arg[p])]
          /\ Logged(p, Call("open", arg[p].key, st, srcObj))
          /\ Goto(p, A2sAfterOpen(arg[p].overwrite))
     \/ /\ Raise(p, Call("open", arg[p].key, "raised", srcObj))
        /\ UNCHANGED loc
  /\ UNCHANGED <<direction, dest, arg, srcObj, result>>
  /\ UNCHANGED copyVars

\* Lines 343-358, one pass of `while exists is True`: head_object returns for a
\* key that is there, and the key is rebuilt from original_name with a fresh id;
\* it raises ClientError 404 for a key that is not there, and ClientError with
\* another code (403, 5xx) whether or not the key is there. `except ClientError`
\* takes both as exists = False. Any other exception propagates.
a2s_head_object(p) ==
  /\ direction = "azure_to_s3"
  /\ pc[p] = "head"
  /\ \/ /\ loc[p].name \in Present(dest)
        /\ \E random_id \in id_generator(IdSize, Chars) :
             loc' = [loc EXCEPT ![p].name = Renamed(loc[p].original_name, random_id)]
        /\ LoggedCheck(p, Call("head", loc[p].name, Answer(TRUE), There(p)))
        /\ UNCHANGED pc
     \/ /\ loc[p].name \notin Present(dest)
        /\ LoggedCheck(p, Call("head", loc[p].name, Answer(FALSE), There(p)))
        /\ Goto(p, "upload")
        /\ UNCHANGED loc
     \/ /\ LoggedCheck(p, Call("head", loc[p].name, "ClientError", There(p)))
        /\ Goto(p, "upload")
        /\ UNCHANGED loc
     \/ /\ Goto(p, "raised")
        /\ LoggedCheck(p, Call("head", loc[p].name, "raised", There(p)))
        /\ UNCHANGED loc
  /\ UNCHANGED <<direction, dest, arg, srcObj, result>>
  /\ UNCHANGED copyVars

\* Lines 361-366: s3_client.upload_fileobj(object_stream.raw, bucket, key): S3
\* replaces an object that exists. Without the delete flag the function then
\* returns (lines 391-397).
a2s_upload_fileobj(p) ==
  /\ direction = "azure_to_s3"
  /\ pc[p] = "upload"
  /\ \/ /\ dest' = [dest EXCEPT ![loc[p].name] = p]
        /\ Logged(p, Call("upload", loc[p].name, "ok", There(p)))
        /\ \E flag \in BOOLEAN :
             /\ loc' = [loc EXCEPT ![p].delete_after_transfer = flag]
             /\ IF DeleteSource(flag)
                THEN Goto(p, "delete_source") /\ UNCHANGED result
                ELSE ReturnName(p, loc[p].name)
     \/ /\ Raise(p, Call("upload", loc[p].name, "raised", There(p)))
        /\ UNCHANGED <<dest, loc, result>>
  /\ UNCHANGED <<direction, arg, srcObj>>
  /\ UNCHANGED copyVars

\* Lines 374-397: blob_client = get_azure_blob_client(...) for the source blob;
\* if blob_client.exists(): blob_client.delete_blob(); then return
a2s_delete_blob(p) ==
  /\ direction = "azure_to_s3"
  /\ pc[p] = "delete_source"
  /\ \/ /\ srcObj
        /\ srcObj' = FALSE
        /\ Logged(p, Call("delete_source", arg[p].key, "ok", srcObj))
        /\ Return(p)
     \/ /\ ~srcObj
        /\ UNCHANGED <<srcObj, log>>
        /\ Return(p)
     \/ /\ Raise(p, Call("delete_source", arg[p].key, "raised", srcObj))
        /\ UNCHANGED <<srcObj, result>>
  /\ UNCHANGED <<direction, dest, arg, loc>>
  /\ UNCHANGED copyVars

azure_to_s3(p) ==
  \/ a2s_object_url(p)
  \/ a2s_requests_get(p)
  \/ a2s_head_object(p)
  \/ a2s_upload_fileobj(p)
  \/ a2s_delete_blob(p)

Next == \E p \in Procs : s3_to_azure(p) \/ azure_to_s3(p)

Init == CopyIdle /\ XferInit

Spec == Init /\ [][Next]_vars

\* the chunked script alone
InitCopy == CopyInit /\ XferIdle

SpecCopy == InitCopy /\ [][CopyNext]_vars

\* ------------------------------------------------------ reading the log
\* positions of the calls of transfer p with an op among ops
At(p, ops) == {i \in 1..Len(log[p]) : log[p][i].op \in ops}

DestChecks == {"exists", "head"}

\* the transfer has left name resolution and goes on with the name it holds
PastResolution(p) ==
  \/ pc[p] \in {"upload", "delete_source"}
  \/ pc[p] = "open" /\ direction = "s3_to_azure"
  \/ result[p] \in AllNames

\* the transfer is inside the rename loop of the non-overwrite branch
InLoop(p) ==
  /\ ~arg[p].overwrite
  /\ \/ direction = "s3_to_azure" /\ pc[p] \in {"check", "rename"}
     \/ direction = "azure_to_s3" /\ pc[p] = "head"

\* ------------------------------------------------------------------ claims

C5_BadStatusNoWrite ==
  /\ status = "bad" => ~fileOpen /\ writes = <<>>
  /\ \A p \in Procs : \A i \in At(p, {"open"}) :
       log[p][i].out = "bad" => \A j \in At(p, {"upload"}) : j < i

\* C5, the chunked script alone: a non-success status leaves the file unopened
\* and unwritten
C5_ScriptBadStatusNoWrite ==
  status = "bad" => ~fileOpen /\ writes = <<>> /\ cpc \in {"SourceOpened", "Failed"}

\* C7: when generating the read URL of the source failed, the transfer has ended
\* with that as its only call: no stream opened, no destination object checked,
\* deleted or written, no source delete, and no result naming a destination.
C7_PresignFailureAborts ==
  \A p \in Procs :
    (log[p] # <<>> /\ log[p][1].op = "presign") =>
      /\ pc[p] \in {"returned", "raised"}
      /\ Len(log[p]) = 1
      /\ result[p] \notin AllNames
      /\ \A n \in AllNames : dest[n] # p

\* C7 witness: generate_presigned_url raised ClientError and the function returned
C7_Witness ==
  \E p \in Procs :
    /\ direction = "s3_to_azure"
    /\ pc[p] = "returned"
    /\ result[p] = None
    /\ Len(log[p]) = 1
    /\ log[p][1].op = "presign"
    /\ log[p][1].out = "ClientError"

C1_ReturnedNameWasFree ==
  \A p \in Procs :
    (result[p] \in AllNames /\ ~arg[p].overwrite) => result[p] \notin loc[p].began

\* C2: without overwrite, the name a transfer leaves name resolution with is the
\* name of its latest existence check, and that name was absent from the
\* namespace at the moment of that check.
C2_ResolvedNameWasAbsentWhenChecked ==
  \A p \in Procs :
    (~arg[p].overwrite /\ PastResolution(p)) =>
      /\ At(p, DestChecks) # {}
      /\ LET last == CHOOSE i \in At(p, DestChecks) : \A k \in At(p, DestChecks) : k <= i
         IN  /\ log[p][last].name = loc[p].name
             /\ ~log[p][last].present

\* the first call of transfer p that touched the destination found the
\* candidate there
FoundCandidate(p) ==
  \E k \in At(p, DestChecks \cup {"upload"}) :
    /\ log[p][k].present
    /\ \A m \in At(p, DestChecks \cup {"upload"}) : k <= m

\* before every upload call of transfer p: one existence check, then one delete
\* that succeeded, and no other check or delete
DeletedBeforeWrite(p) ==
  \A j \in At(p, {"upload"}) :
    /\ Cardinality({i \in At(p, DestChecks) : i < j}) = 1
    /\ Cardinality({i \in At(p, {"delete"}) : i < j}) = 1
    /\ \E c \in At(p, DestChecks), d \in At(p, {"delete"}) :
         c < d /\ d < j /\ log[p][d].out = "ok"

C6_CheckErrorsPropagate ==
  \A p \in Procs :
    \A i \in At(p, DestChecks \cup {"delete"}) :
      log[p][i].out \in {"ClientError", "raised"} =>
        /\ pc[p] = "raised"
        /\ At(p, {"upload"}) = {}

\* C9: two transfers without overwrite that start from the same candidate and
\* whose existence checks both answered "absent" for the name they then upload
\* never make their upload calls on the same destination name.
C9_ConcurrentUploadsDistinct ==
  \A p \in Procs : \A q \in Procs \ {p} :
    (~arg[p].overwrite /\ ~arg[q].overwrite) =>
      \A i \in At(p, {"upload"}), j \in At(q, {"upload"}) :
        ((\E c \in At(p, DestChecks) : c < i /\ log[p][c].out = "absent"
                                        /\ log[p][c].name = log[p][i].name)
         /\ (\E c \in At(q, DestChecks) : c < j /\ log[q][c].out = "absent"
                                        /\ log[q][c].name = log[q][j].name))
        => log[p][i].name # log[q][j].name

\* C10: the rename loop is left only for a free name: while the candidate and
\* every name stem_<suffix>ext derived from it are taken, no step takes a transfer
\* out of the loop and on to the rest of the transfer.
C10_NoExitWhileAllNamesTaken ==
  [][\A p \in Procs :
       (InLoop(p) /\ Family(DefaultName(arg[p])) \subseteq Present(dest))
       => ~PastResolution(p)']_vars

\* ---------------------------------------------------------------------------
\* The script's call history, read back

\* the positions in io of the calls that raised
Raisers == {i \in 1..Len(io) : ~io[i].ok}

\* the calls of one kind that returned
Returned(op) == {i \in 1..Len(io) : io[i].op = op /\ io[i].ok}

\* the script's reads and writes, in order
IsTransferCall(e) == e.op \in {"read", "write"}

\* C11: the copy does not retry and does not roll back. A call that raised is
\* the last call the script makes, so no read or write follows a failed read or
\* write; the script then stands in Failed, and only then; the file holds the
\* chunks whose write returned, which are a prefix of the source, and a failed
\* write or read leaves the bytes written before it in place.
C11_NoRetryNoRollback ==
  /\ \A i \in Raisers : i = Len(io)
  /\ (Raisers # {}) <=> (cpc = "Failed")
  /\ Len(writes) = Cardinality(Returned("write"))
  /\ file = Concat(writes)
  /\ Len(file) <= Len(source)
  /\ file = SubSeq(source, 1, Len(file))
  /\ cpc = "Failed" /\ IsTransferCall(io[Len(io)]) =>
       fileOpen

\* a write fails after a chunk was written and before the source is exhausted:
\* the partial file stays
C11_Witness ==
  /\ cpc = "Failed"
  /\ io[Len(io)] = Did("write", FALSE)
  /\ writes # <<>>
  /\ Len(file) < Len(source)

\* C11, for the two transfer functions: a transfer that raised or returned
\* makes no further call and keeps its outcome.
C11_TransferOutcomeIsFinal ==
  [][\A p \in Procs : pc[p] \in {"raised", "returned"} =>
        /\ pc'[p] = pc[p]
        /\ result'[p] = result[p]
        /\ loc'[p] = loc[p]]_vars

\* the steps of the script the copy may take, as pairs of positions
CopySteps ==
  {<<"NotStarted", "SourceOpened">>, <<"SourceOpened", "StatusChecked">>,
   <<"StatusChecked", "Streaming">>, <<"Streaming", "Writing">>,
   <<"Writing", "Streaming">>, <<"Streaming", "Completed">>}
    \cup {<<c, "Failed">> : c \in {"NotStarted", "SourceOpened", "StatusChecked",
                                   "Streaming", "Writing"}}

\* the calls that may follow a call that returned
CallOrder ==
  {<<"get", "raise_for_status">>, <<"raise_for_status", "open">>,
   <<"open", "read">>, <<"open", "end">>, <<"read", "write">>,
   <<"write", "read">>, <<"write", "end">>}

\* C12: one copy moves NotStarted -> SourceOpened -> Streaming -> Completed or
\* Failed and nowhere else (SourceOpened covers the status check, Streaming the
\* read and the write of a chunk; Failed can be entered from every position
\* before the end). No write comes before the source and the file were opened;
\* reads and writes alternate, starting with a read, and the chunk read is the
\* one written, so at most one chunk is in hand; nothing is called once
\* Completed or Failed is reached.
C12_CopyStateMachine ==
  /\ [](/\ \A i \in 1..(Len(io) - 1) :
              io[i].ok /\ <<io[i].op, io[i + 1].op>> \in CallOrder
        /\ io # <<>> => io[1].op = "get"
        /\ reads = Cardinality(Returned("read"))
        /\ reads - Len(writes) = (IF chunk # <<>> THEN 1 ELSE 0)
        /\ (chunk # <<>>) => cpc \in {"Writing", "Failed"}
        /\ cpc = "Writing" =>
             /\ chunk # <<>>
             /\ chunk = SubSeq(source, Len(file) + 1, Len(file) + Len(chunk))
        /\ writes # <<>> => status = "ok" /\ fileOpen
        /\ (cpc = "Completed") <=> (io # <<>> /\ io[Len(io)].op = "end"))
  /\ [][\E st \in CopySteps : cpc = st[1] /\ cpc' = st[2]]_vars

\* the script ends after two chunks were read and written in turn
C12_Witness ==
  /\ cpc = "Completed"
  /\ Len(writes) = 2
  /\ [i \in 1..Len(io) |-> io[i].op] =
       <<"get", "raise_for_status", "open", "read", "write", "read", "write", "end">>

====
